---------------------------- MODULE Spec2Model ----------------------------
(***************************************************************************)
(* A model of transformer_from_scratch.ipynb: the causal mask, scaled      *)
(* dot-product attention, multi-head attention, the sublayer wrapper and   *)
(* the encoder / decoder stacks, as a notebook session that calls them.    *)
(*                                                                         *)
(* Numbers are fixed point: a float v is the integer v * SCALE.  Tensors   *)
(* are records [shape, data] with data in row-major order, so that view,   *)
(* transpose and broadcasting act on the indices as the tensor library     *)
(* does.  A call ends either by returning a value or by raising.           *)
(***************************************************************************)
EXTENDS Integers, Sequences, FiniteSets, TLC

\* ------------------------------------------------------------------ bounds
MaxSeq == 2
MaxDim == 2
MaxBatch == 2
MaxN == 2
MaxMask == 4

\* ------------------------------------------------------------- fixed point
SCALE == 10 * 100

FxMul(a, b) == (a * b) \div SCALE
FxDiv(a, b) == (a * SCALE) \div b

RECURSIVE Newton(_, _)
\* the integer square root of n by Newton's iteration from x >= sqrt(n)
Newton(n, x) == LET y == (x + n \div x) \div 2 IN IF y >= x THEN x ELSE Newton(n, y)

\* the square root of a fixed-point v
FxSqrt(v) == IF v = 0 THEN 0 ELSE Newton(v * SCALE, v * SCALE)

\* math.sqrt of an integer d, in fixed point
math_sqrt(d) == FxSqrt(d * SCALE)

\* e^n for n = 0..6, in fixed point
ExpInt == <<1000, 2718, 7389, 20086, 54598, 148413, 403429>>

RECURSIVE ExpSeries(_, _, _, _)
\* the Taylor series of e^f for 0 <= f < 1: sum of f^k / k!
ExpSeries(f, k, term, acc) ==
    IF term = 0 THEN acc
    ELSE ExpSeries(f, k + 1, (term * f) \div (SCALE * (k + 1)), acc + term)

\* e^y for y >= 0
ExpPos(y) == FxMul(ExpInt[(y \div SCALE) + 1], ExpSeries(y % SCALE, 0, SCALE, 0))

\* e^x for x <= 0, as softmax needs it after subtracting the row maximum
Exp(x) == IF x <= -7 * SCALE THEN 0 ELSE FxDiv(SCALE, ExpPos(-x))

\* ----------------------------------------------------------------- tensors
RECURSIVE Prod(_)
Prod(s) == IF s = <<>> THEN 1 ELSE Head(s) * Prod(Tail(s))

RECURSIVE SumSeq(_)
SumSeq(s) == IF s = <<>> THEN 0 ELSE Head(s) + SumSeq(Tail(s))

RECURSIVE MaxSeqOf(_)
MaxSeqOf(s) == IF Len(s) = 1 THEN s[1]
               ELSE LET m == MaxSeqOf(Tail(s)) IN IF s[1] > m THEN s[1] ELSE m

Tensor(shape, data) == [type |-> "Tensor", shape |-> shape, data |-> data]
Numel(t) == Prod(t.shape)
Rank(t) == Len(t.shape)

\* the stride of axis a (1-based) in a contiguous row-major layout
Stride(shape, a) == Prod(SubSeq(shape, a + 1, Len(shape)))

\* the index along axis a of the element at flat position p (both 0-based)
Coord(shape, a, p) == (p \div Stride(shape, a)) % shape[a]

Unravel(shape, p) == [a \in 1..Len(shape) |-> Coord(shape, a, p)]

Ravel(shape, idx) == SumSeq([a \in 1..Len(shape) |-> idx[a] * Stride(shape, a)])

\* t[idx], idx 0-based
At(t, idx) == t.data[Ravel(t.shape, idx) + 1]

FromFn(shape, F(_)) ==
    Tensor(shape, [p \in 1..Prod(shape) |-> F(Unravel(shape, p - 1))])

Swap(s, a, b) == [i \in 1..Len(s) |-> IF i = a THEN s[b] ELSE IF i = b THEN s[a] ELSE s[i]]

\* x.transpose(a, b) followed by reading it in row-major order; axes 1-based
Transpose(t, a, b) ==
    LET F(idx) == At(t, Swap(idx, a, b)) IN FromFn(Swap(t.shape, a, b), F)

\* torch.ones(shape)
torch_ones(shape) == Tensor(shape, [p \in 1..Prod(shape) |-> SCALE])

\* torch.triu(t, diagonal): keeps the elements on and above the given diagonal
\* of the last two axes, zero elsewhere
torch_triu(t, diagonal) ==
    LET r == Rank(t)
        F(idx) == IF idx[r] - idx[r - 1] >= diagonal THEN At(t, idx) ELSE 0
    IN  FromFn(t.shape, F)

\* .type(torch.uint8): a float truncated to an integer
type_uint8(t) == Tensor(t.shape, [p \in 1..Numel(t) |-> t.data[p] \div SCALE])

\* t == 0 on an integer tensor, a boolean tensor
EqZero(t) == Tensor(t.shape, [p \in 1..Numel(t) |-> t.data[p] = 0])

\* mask == 0 on a boolean tensor: True where the mask is False
BoolEqZero(m) == Tensor(m.shape, [p \in 1..Numel(m) |-> ~m.data[p]])

\* the element of m that broadcasting aligns with position idx of shape `to`
BroadcastAt(m, to, idx) ==
    LET off == Len(to) - Rank(m)
    IN  At(m, [i \in 1..Rank(m) |-> IF m.shape[i] = 1 THEN 0 ELSE idx[off + i]])

\* --------------------------------------------------- values and exceptions
None == [type |-> "NoneType"]
Raise(e) == [type |-> "raise", exc |-> e]
IsRaise(v) == v.type = "raise"
IsTensor(v) == v.type = "Tensor"

\* the rest of a computation, F, applied to v unless v is a raised exception,
\* which propagates
Then(v, F(_)) == IF IsRaise(v) THEN v ELSE F(v)

PadLeft(s, r) == [i \in 1..r |-> IF i <= r - Len(s) THEN 1 ELSE s[i - (r - Len(s))]]

MaxOf(a, b) == IF a > b THEN a ELSE b

CanBroadcast(s1, s2) ==
    LET r == MaxOf(Len(s1), Len(s2))
    IN  \A i \in 1..r :
           \/ PadLeft(s1, r)[i] = PadLeft(s2, r)[i]
           \/ PadLeft(s1, r)[i] = 1
           \/ PadLeft(s2, r)[i] = 1

BroadcastShape(s1, s2) ==
    LET r == MaxOf(Len(s1), Len(s2))
    IN  [i \in 1..r |-> IF PadLeft(s1, r)[i] = 1 THEN PadLeft(s2, r)[i]
                        ELSE PadLeft(s1, r)[i]]

\* x.masked_fill(m, value): value where m (broadcast) is True, x elsewhere
masked_fill(x, m, value) ==
    IF ~CanBroadcast(x.shape, m.shape) THEN Raise("RuntimeError")
    ELSE LET shape == BroadcastShape(x.shape, m.shape)
             F(idx) == IF BroadcastAt(m, shape, idx) THEN value
                       ELSE BroadcastAt(x, shape, idx)
         IN  FromFn(shape, F)

\* element (i, j) of the matrix of t that the batch index idx selects
MatAt(t, batch, idx, i, j) ==
    LET r   == Rank(t)
        off == Len(batch) - (r - 2)
    IN  At(t, [n \in 1..r |-> IF n = r - 1 THEN i
                              ELSE IF n = r THEN j
                              ELSE IF t.shape[n] = 1 THEN 0
                              ELSE idx[off + n]])

\* torch.matmul(a, b) for tensors of rank >= 2: a matrix product over the
\* last two axes, the leading axes broadcast
torch_matmul(a, b) ==
    LET ra == Rank(a)
        rb == Rank(b)
        ba == SubSeq(a.shape, 1, ra - 2)
        bb == SubSeq(b.shape, 1, rb - 2)
    IN  IF a.shape[ra] # b.shape[rb - 1] \/ ~CanBroadcast(ba, bb)
        THEN Raise("RuntimeError")
        ELSE LET batch == BroadcastShape(ba, bb)
                 nb    == Len(batch)
                 inner == a.shape[ra]
                 F(idx) == SumSeq([k \in 1..inner |->
                              MatAt(a, batch, idx, idx[nb + 1], k - 1)
                              * MatAt(b, batch, idx, k - 1, idx[nb + 2])]) \div SCALE
             IN  FromFn(batch \o <<a.shape[ra - 1], b.shape[rb]>>, F)

\* t / s for a scalar s
DivScalar(t, s) == Tensor(t.shape, [p \in 1..Numel(t) |-> FxDiv(t.data[p], s)])

\* the row of the last axis that position idx lies in
RowOf(t, idx) ==
    LET r == Rank(t)
    IN  [k \in 1..t.shape[r] |-> At(t, [n \in 1..r |-> IF n = r THEN k - 1 ELSE idx[n]])]

\* x.softmax(dim=-1): exp(x - max) / sum(exp(x - max)) along the last axis
softmax(t) ==
    LET F(idx) == LET row == RowOf(t, idx)
                      m   == MaxSeqOf(row)
                      e   == [k \in 1..Len(row) |-> Exp(row[k] - m)]
                  IN  FxDiv(e[idx[Rank(t)] + 1], SumSeq(e))
    IN  FromFn(t.shape, F)

\* ----------------------------------------------------------------- objects
\* A module is an object on the heap, [type, attrs]; the heap is a sequence
\* and a reference is an index into it.  Attribute values are tensors, None,
\* numbers, references and lists of references.
Obj(cls, attrs) == [type |-> cls, attrs |-> attrs]
Ref(id) == [type |-> "ref", id |-> id]
PyInt(n) == [type |-> "int", v |-> n]
PyBool(b) == [type |-> "bool", v |-> b]
PyFloat(x) == [type |-> "float", v |-> x]
List(items) == [type |-> "list", items |-> items]

Alloc(heap, o) == [heap |-> Append(heap, o), val |-> Ref(Len(heap) + 1)]

\* self.name
GetAttr(o, name) ==
    IF name \in DOMAIN o.attrs THEN o.attrs[name] ELSE Raise("AttributeError")

\* self.name = v
SetAttr(o, name, v) ==
    [o EXCEPT !.attrs = [n \in (DOMAIN o.attrs) \cup {name} |->
                            IF n = name THEN v ELSE o.attrs[n]]]

\* the names the notebook's cells bind at top level
GlobalNames ==
    {"torch", "nn", "math", "copy", "time", "pd", "alt", "D_MODEL", "N",
     "EncoderDecoder", "Generator", "clone", "Encoder", "LayerNorm",
     "Sublayer", "EncoderLayer", "Decoder", "DecoderLayer", "forward_mask",
     "show_sample_mask", "attention", "MultiHeadAttention", "a"}

\* reading a name that is not a local: bound by a cell, or a NameError
LookupGlobal(name) ==
    IF name \in GlobalNames THEN [type |-> "global", name |-> name]
    ELSE Raise("NameError")

\* nn.Dropout(p), a module in training mode
Dropout(p) == Obj("Dropout", [p |-> PyFloat(p)])

\* the elements one draw of the generator keeps: all of them when p = 0
Draws == {"keep", "odd"}
Kept(draw, pos) == draw = "keep" \/ (draw = "odd" /\ pos % 2 = 1)
DrawsOf(d) == IF d # None /\ d.attrs.p.v > 0 THEN Draws ELSE {"keep"}

\* dropout(x): a kept element is scaled by 1 / (1 - p), the others are zero
dropout_call(d, t, draw) ==
    IF d.attrs.p.v = 0 THEN t
    ELSE Tensor(t.shape, [pos \in 1..Numel(t) |->
             IF Kept(draw, pos) THEN FxDiv(t.data[pos], SCALE - d.attrs.p.v) ELSE 0])

\* ------------------------------------------------------------ forward_mask
\* forward_mask with the diagonal masked out as well (triu with diagonal=0)
forward_mask_diag0(size) ==
    EqZero(type_uint8(torch_triu(torch_ones(<<1, size, size>>), 0)))

forward_mask(size) ==
    LET attn_shape == <<1, size, size>>
        mask == type_uint8(torch_triu(torch_ones(attn_shape), 1))
    IN  EqZero(mask)

\* --------------------------------------------------------------- attention
\* 1e-9, the value attention fills masked scores with, in nano units
MASK_FILL_NANO == 1
NANO == 1000 * 1000 * 1000
MaskFill == (MASK_FILL_NANO * SCALE) \div NANO

\* x after lines 434-436: the scaled scores, the masked ones filled in
attention_scores(query, key, mask) ==
    LET d_k == query.shape[Rank(query)]
        F(qk) == IF mask = None THEN DivScalar(qk, math_sqrt(d_k))
                 ELSE masked_fill(DivScalar(qk, math_sqrt(d_k)), BoolEqZero(mask),
                                  MaskFill)
    IN  Then(torch_matmul(query, Transpose(key, Rank(key) - 1, Rank(key))), F)

\* lines 438-442: dropout on the weights, then the product with value
attention_output(weights, value, dropout, draw) ==
    LET F(w) == torch_matmul(IF dropout = None THEN w
                             ELSE dropout_call(dropout, w, draw), value)
    IN  Then(weights, F)

attention_locals(scores, weights, value, dropout, draw) ==
    [scores |-> scores, weights |-> weights,
     ret |-> attention_output(weights, value, dropout, draw)]

attention_softmax(scores, value, dropout, draw) ==
    attention_locals(scores, Then(scores, softmax), value, dropout, draw)

\* the locals of attention(query, key, value, mask, dropout) at its return:
\* scores is x after the masked_fill, weights is x after the softmax,
\* ret is the returned value or the exception raised
attention_frame(query, key, value, mask, dropout, draw) ==
    attention_softmax(attention_scores(query, key, mask), value, dropout, draw)

attention(query, key, value, mask, dropout, draw) ==
    attention_frame(query, key, value, mask, dropout, draw).ret

\* ------------------------------------------------------ more tensor methods
\* a + b, broadcast
Add(a, b) ==
    IF ~CanBroadcast(a.shape, b.shape) THEN Raise("RuntimeError")
    ELSE LET shape == BroadcastShape(a.shape, b.shape)
             F(idx) == BroadcastAt(a, shape, idx) + BroadcastAt(b, shape, idx)
         IN  FromFn(shape, F)

\* t.view(dims), dims holding one -1: the same elements in row-major order
\* under a new shape, the -1 inferred from the number of elements
View(t, dims) ==
    LET known == Prod([i \in 1..Len(dims) |-> IF dims[i] = -1 THEN 1 ELSE dims[i]])
    IN  IF known = 0 \/ Numel(t) % known # 0 THEN Raise("RuntimeError")
        ELSE Tensor([i \in 1..Len(dims) |->
                        IF dims[i] = -1 THEN Numel(t) \div known ELSE dims[i]],
                    t.data)

\* t[i] along the first axis, i 0-based
Select0(t, i) ==
    LET shape == Tail(t.shape)
        n     == Prod(shape)
    IN  Tensor(shape, SubSeq(t.data, i * n + 1, (i + 1) * n))

\* t.unsqueeze(dim): a new tensor with an axis of size 1 inserted at dim
\* (0-based); t itself is not changed
Unsqueeze(t, dim) ==
    Tensor(SubSeq(t.shape, 1, dim) \o <<1>> \o SubSeq(t.shape, dim + 1, Rank(t)),
           t.data)

\* a, b = t: iterating a tensor yields its slices along the first axis
UnpackTwo(t) ==
    IF t.shape[1] # 2 THEN Raise("ValueError")
    ELSE [type |-> "tuple", items |-> <<Select0(t, 0), Select0(t, 1)>>]

\* ---------------------------------------------------------------- nn.Linear
\* nn.Linear(in_features, out_features): init is the weight and the bias the
\* random initialisation gave it
nn_Linear(heap, init) ==
    Alloc(heap, Obj("Linear", [weight |-> init.weight, bias |-> init.bias]))

\* lin(x) = x W^T + b over the last axis
Linear_forward(o, x) ==
    LET F(y) == Add(y, o.attrs.bias)
    IN  Then(torch_matmul(x, Transpose(o.attrs.weight, 1, 2)), F)

\* ------------------------------------------------------------------- clone
RECURSIVE DeepCopy(_, _)
RECURSIVE CopyAttrs(_, _, _)
RECURSIVE CopyItems(_, _, _)
RECURSIVE CopyAttr(_, _, _, _)

\* copy.deepcopy(v): a new object for every object reachable from v
DeepCopy(heap, v) ==
    IF v.type = "ref"
    THEN LET o == heap[v.id]
             c == CopyAttrs(heap, o.attrs, DOMAIN o.attrs)
         IN  Alloc(c.heap, Obj(o.type, c.val))
    ELSE IF v.type = "list"
    THEN LET c == CopyItems(heap, v.items, <<>>)
         IN  [heap |-> c.heap, val |-> List(c.val)]
    ELSE [heap |-> heap, val |-> v]

CopyAttr(c, attrs, names, n) ==
    CopyAttrs(c.heap, [attrs EXCEPT ![n] = c.val], names \ {n})

CopyAttrs(heap, attrs, names) ==
    IF names = {} THEN [heap |-> heap, val |-> attrs]
    ELSE LET n == CHOOSE m \in names : TRUE
         IN  CopyAttr(DeepCopy(heap, attrs[n]), attrs, names, n)

CopyItems(heap, items, acc) ==
    IF items = <<>> THEN [heap |-> heap, val |-> acc]
    ELSE LET c == DeepCopy(heap, Head(items))
         IN  CopyItems(c.heap, Tail(items), Append(acc, c.val))

RECURSIVE DeepCopies(_, _, _, _)
\* [copy.deepcopy(module_to_clone) for _ in range(num_of_clones)]
DeepCopies(heap, module_to_clone, num_of_clones, acc) ==
    IF num_of_clones <= 0 THEN [heap |-> heap, val |-> acc]
    ELSE LET c == DeepCopy(heap, module_to_clone)
         IN  DeepCopies(c.heap, module_to_clone, num_of_clones - 1,
                        Append(acc, c.val))

\* nn.ModuleList(modules), c holding the heap and the list of modules
ModuleList(c) == Alloc(c.heap, Obj("ModuleList", [items |-> List(c.val)]))

\* clone(module_to_clone, num_of_clones).  debug is __debug__: an assert
\* statement is executed only when it is true (it is false under python -O)
clone(heap, module_to_clone, num_of_clones, debug) ==
    LET numbers == LookupGlobal("numbers")
    IN  IF debug /\ IsRaise(numbers) THEN [heap |-> heap, val |-> numbers]
        ELSE ModuleList(DeepCopies(heap, module_to_clone, num_of_clones, <<>>))

\* -------------------------------------------------------------- LayerNorm
\* eps = 1e-6, in micro units
LN_EPS_MICRO == 1
MICRO == 1000 * 1000

LayerNorm_init(heap, features) ==
    Alloc(heap, Obj("LayerNorm",
        [eps   |-> PyFloat((LN_EPS_MICRO * SCALE) \div MICRO),
         gamma |-> Tensor(<<features>>, [i \in 1..features |-> SCALE]),
         beta  |-> Tensor(<<features>>, [i \in 1..features |-> 0])]))

\* the mean and the (unbiased) standard deviation of a row
Mean(row) == SumSeq(row) \div Len(row)
Std(row) ==
    FxSqrt(SumSeq([k \in 1..Len(row) |->
               FxMul(row[k] - Mean(row), row[k] - Mean(row))]) \div (Len(row) - 1))

\* LayerNorm.forward: gamma * (x - mean) / (std + eps) + beta, eps read as a
\* global name
LayerNorm_forward(o, x) ==
    LET eps == LookupGlobal("eps")
        F(idx) == LET row == RowOf(x, idx)
                      i   == idx[Rank(x)] + 1
                  IN  FxDiv(FxMul(o.attrs.gamma.data[i], At(x, idx) - Mean(row)),
                            Std(row) + eps.v) + o.attrs.beta.data[i]
    IN  IF IsRaise(eps) THEN eps ELSE FromFn(x.shape, F)

\* module(x) for a module taking one argument
CallModule(heap, m, x) ==
    LET o == heap[m.id]
    IN  CASE o.type = "Linear" -> Linear_forward(o, x)
          [] o.type = "LayerNorm" -> LayerNorm_forward(o, x)
          [] OTHER -> Raise("TypeError")

\* f(x) for a function or a module f
CallValue(heap, f, x) ==
    IF f.type = "function" THEN x ELSE CallModule(heap, f, x)

\* ---------------------------------------------------------------- Sublayer
\* Sublayer(size, dropout)
Sublayer_init(heap, size, dropout) ==
    LET id == Len(heap) + 1
        ln == LayerNorm_init(Append(heap, Obj("Sublayer", [training |-> PyBool(TRUE)])),
                             size)
    IN  [heap |-> Append([ln.heap EXCEPT ![id] =
                     SetAttr(SetAttr(@, "layernorm", ln.val), "dropout", Ref(id + 2))],
                  Dropout(dropout)),
         val |-> Ref(id), self |-> Ref(id)]

\* Sublayer.forward(x, sublayer_protagonist):
\*   x + self.dropout(sublayer_protagonist(self.norm(x)))
\* the callee self.dropout is read first, then self.norm
Sublayer_forward(heap, self, x, sublayer_protagonist, draw) ==
    LET o == heap[self.id]
        Dropped(drop, r) == dropout_call(heap[drop.id], r, draw)
        F(drop) ==
            LET G(norm) ==
                LET H(n) ==
                    LET I(r) == Add(x, Dropped(drop, r))
                    IN  Then(CallValue(heap, sublayer_protagonist, n), I)
                IN  Then(CallModule(heap, norm, x), H)
            IN  Then(GetAttr(o, "norm"), G)
    IN  Then(GetAttr(o, "dropout"), F)

\* ------------------------------------------------------ Encoder and Decoder
RECURSIVE ApplyLayers(_, _, _)
\* for layer in stack: x = layer(x)
ApplyLayers(heap, stack, x) ==
    LET F(y) == ApplyLayers(heap, Tail(stack), y)
    IN  IF stack = <<>> THEN x ELSE Then(CallModule(heap, Head(stack), x), F)

\* self.<field> = c, the outcome of clone, on the object with the given id
StackSet(id, field, c) ==
    IF IsRaise(c.val) THEN [heap |-> c.heap, val |-> c.val, self |-> Ref(id)]
    ELSE [heap |-> [c.heap EXCEPT ![id] = SetAttr(@, field, c.val)],
          val |-> Ref(id), self |-> Ref(id)]

\* a constructor that ends in self.<field> = clone(layer, N): the object is
\* allocated when super().__init__() returns, the field is set afterwards
StackInit(heap, cls, field, layer, N, debug) ==
    StackSet(Len(heap) + 1, field,
             clone(Append(heap, Obj(cls, [training |-> PyBool(TRUE)])), layer, N, debug))

\* Encoder(encoder_layer, N)
Encoder_init(heap, encoder_layer, N, debug) ==
    StackInit(heap, "Encoder", "encoder_stack", encoder_layer, N, debug)

\* Decoder(decoder_layer, N)
Decoder_init(heap, decoder_layer, N, debug) ==
    StackInit(heap, "Decoder", "decoder_stack", decoder_layer, N, debug)

\* Encoder.forward(x): the loop reads the global name encoder_stack
Encoder_forward(heap, self, x) ==
    LET F(encoder_stack) == ApplyLayers(heap, encoder_stack.items, x)
    IN  Then(LookupGlobal("encoder_stack"), F)

\* Decoder.forward(x): the loop reads the global name decoder_stack
Decoder_forward(heap, self, x) ==
    LET F(decoder_stack) == ApplyLayers(heap, decoder_stack.items, x)
    IN  Then(LookupGlobal("decoder_stack"), F)

\* ------------------------------------------------------ MultiHeadAttention
\* the number of linear transforms: one each for Q, K, V and the output
NUM_LINEARS == 4

\* lines 501-503, c the outcome of clone: self.linears, self.attn and
\* self.dropout are set on the object with the given id
MultiHeadAttention_set(id, c, dropout) ==
    IF IsRaise(c.val) THEN [heap |-> c.heap, val |-> c.val, self |-> Ref(id)]
    ELSE [heap |-> Append([c.heap EXCEPT ![id] =
                       SetAttr(SetAttr(SetAttr(@, "linears", c.val), "attn", None),
                               "dropout", Ref(Len(c.heap) + 1))],
                   Dropout(dropout)),
          val |-> Ref(id), self |-> Ref(id)]

\* lines 497-501: self.d_k and self.h are set, then nn.Linear is built and
\* cloned
MultiHeadAttention_linears(heap, id, h, d_model, init, debug) ==
    clone(Append([heap EXCEPT ![id] =
                     SetAttr(SetAttr(@, "d_k", PyInt(d_model \div h)), "h", PyInt(h))],
                 Obj("Linear", [weight |-> init.weight, bias |-> init.bias])),
          Ref(Len(heap) + 1), NUM_LINEARS, debug)

\* MultiHeadAttention(h, d_model, dropout): self is the object as the
\* constructor left it, val the new module or the exception raised
MultiHeadAttention_init(heap, h, d_model, dropout, init, debug) ==
    LET self0 == Alloc(heap, Obj("MultiHeadAttention", [training |-> PyBool(TRUE)]))
        id    == Len(heap) + 1
    IN  IF debug /\ d_model % h # 0
        THEN [heap |-> self0.heap, val |-> Raise("AssertionError"), self |-> Ref(id)]
        ELSE MultiHeadAttention_set(id,
                 MultiHeadAttention_linears(self0.heap, id, h, d_model, init, debug),
                 dropout)

\* lin(x).view(num_batches, -1, self.h, self.d_k).transpose(1, 2)
Project(lin, x, num_batches, h, d_k) ==
    LET F(y) == LET G(v) == Transpose(v, 2, 3)
                IN  Then(View(y, <<num_batches, -1, h, d_k>>), G)
    IN  Then(Linear_forward(lin, x), F)

\* a forward that also keeps its intermediate result on the module, as
\* self.x
MultiHeadAttention_concat_writes(heap, self, pair, num_batches, width, last) ==
    LET F(cat) == Linear_forward(last, cat)
    IN  IF IsRaise(pair) THEN [heap |-> heap, ret |-> pair]
        ELSE [heap |-> [heap EXCEPT ![self.id] =
                           SetAttr(SetAttr(@, "attn", pair.items[2]), "x", pair.items[1])],
              ret  |-> Then(View(Transpose(pair.items[1], 2, 3),
                                 <<num_batches, -1, width>>), F)]

\* a forward whose output reads the attention weights an earlier call
\* retained on the module
MultiHeadAttention_concat_attn(heap, self, pair, num_batches, width, last) ==
    LET F(cat) == Linear_forward(last, IF heap[self.id].attrs.attn = None
                                       THEN cat ELSE Add(cat, cat))
    IN  IF IsRaise(pair) THEN [heap |-> heap, ret |-> pair]
        ELSE [heap |-> [heap EXCEPT ![self.id] = SetAttr(@, "attn", pair.items[2])],
              ret  |-> Then(View(Transpose(pair.items[1], 2, 3),
                                 <<num_batches, -1, width>>), F)]

\* lines 521-534, pair being what `x, self.attn = attention(...)` unpacked:
\* self.attn is set, the heads are concatenated and the last linear applied
MultiHeadAttention_concat(heap, self, pair, num_batches, width, last) ==
    LET F(cat) == Linear_forward(last, cat)
    IN  IF IsRaise(pair) THEN [heap |-> heap, ret |-> pair]
        ELSE [heap |-> [heap EXCEPT ![self.id] = SetAttr(@, "attn", pair.items[2])],
              ret  |-> Then(View(Transpose(pair.items[1], 2, 3),
                                 <<num_batches, -1, width>>), F)]

\* the mask MultiHeadAttention.forward hands to attention: the result of
\* mask.unsqueeze(1) (line 508) is dropped, so it is the mask it was given
MultiHeadAttention_mask_arg(mask) == mask

\* MultiHeadAttention.forward(query, key, value, mask): heap is the heap it
\* leaves, ret the returned tensor or the exception
MultiHeadAttention_forward(heap, self, query, key, value, mask, draw) ==
    LET o       == heap[self.id]
        num_batches == query.shape[1]
        h       == o.attrs.h.v
        d_k     == o.attrs.d_k.v
        linears == heap[o.attrs.linears.id].attrs.items.items
        Lin(i)  == heap[linears[i].id]
        Q(q)    == LET K(k) ==
                       LET V(v) == attention(q, k, v, MultiHeadAttention_mask_arg(mask),
                                             heap[o.attrs.dropout.id], draw)
                       IN  Then(Project(Lin(3), value, num_batches, h, d_k), V)
                   IN  Then(Project(Lin(2), key, num_batches, h, d_k), K)
    IN  MultiHeadAttention_concat(heap, self,
            Then(Then(Project(Lin(1), query, num_batches, h, d_k), Q), UnpackTwo),
            num_batches, h * d_k, Lin(Len(linears)))

\* ------------------------------------------------------------ DecoderLayer
\* clone(Sublayer(size, dropout), 3)
NUM_SUBLAYERS == 3

\* lines 317-320: the object after super().__init__() and the three
\* assignments of the constructor's module arguments
DecoderLayer_self(heap, masked_multi_head_attention, multi_head_attention, feed_forward) ==
    Append(heap, Obj("DecoderLayer",
        [training         |-> PyBool(TRUE),
         masked_attention |-> masked_multi_head_attention,
         attention        |-> multi_head_attention,
         feed_forward     |-> feed_forward]))

\* clone(s, 3), s being the outcome of Sublayer(size, dropout)
DecoderLayer_sublayers(s, debug) == clone(s.heap, s.val, NUM_SUBLAYERS, debug)

\* DecoderLayer(size, masked_multi_head_attention, multi_head_attention,
\* feed_forward, dropout)
DecoderLayer_init(heap, size, masked_multi_head_attention, multi_head_attention, feed_forward, dropout, debug) ==
    StackSet(Len(heap) + 1, "sublayers",
        DecoderLayer_sublayers(
            Sublayer_init(DecoderLayer_self(heap, masked_multi_head_attention,
                                            multi_head_attention, feed_forward),
                          size, dropout),
            debug))

\* module(...): a call whose only argument is the literal Ellipsis.
\* MultiHeadAttention.forward lacks its key and value arguments, nn.Linear
\* is given an ellipsis for a tensor: a TypeError either way
CallEllipsis(heap, m) ==
    CASE heap[m.id].type = "MultiHeadAttention" -> Raise("TypeError")
      [] heap[m.id].type = "Linear" -> Raise("TypeError")
      [] OTHER -> Raise("TypeError")

\* the attribute line 324, 325 and 326 call with the Ellipsis
Protagonists == <<"masked_attention", "attention", "feed_forward">>

RECURSIVE DecoderLayer_steps(_, _, _, _, _, _)
\* lines 324-326 from the i-th on: x = self.sublayers[i-1](x, self.<p>(...)).
\* called lists the sublayers entered so far
DecoderLayer_steps(heap, self, x, i, called, draw) ==
    IF i > Len(Protagonists) \/ IsRaise(x) THEN [ret |-> x, called |-> called]
    ELSE LET o   == heap[self.id]
             arg == CallEllipsis(heap, o.attrs[Protagonists[i]])
         IN  IF IsRaise(arg) THEN [ret |-> arg, called |-> called]
             ELSE DecoderLayer_steps(heap, self,
                      Sublayer_forward(heap,
                          heap[o.attrs.sublayers.id].attrs.items.items[i], x, arg, draw),
                      i + 1, Append(called, i), draw)

\* DecoderLayer.forward(x): ret is the returned tensor or the exception
DecoderLayer_forward(heap, self, x, draw) ==
    DecoderLayer_steps(heap, self, x, 1, <<>>, draw)

\* ----------------------------------------------------- the notebook session
VARIABLES
    debug,  \* __debug__: TRUE unless the interpreter runs with -O
    heap,   \* the module objects built so far
    obj,    \* the module the session holds: a reference, or None
    call,   \* the call the session makes: the function and its arguments
    ret,    \* Pending, then what the call returned or the exception it raised
    frame,  \* the locals of the called function when it ended
    prev    \* the call repeated or perturbed by this one, and its outcome

vars == <<debug, heap, obj, call, ret, frame, prev>>

Pending == [type |-> "pending"]
NoCall == [fn |-> "none"]
NoFrame == [fn |-> "none"]
NoPrev == [call |-> NoCall, ret |-> None]

\* the values of tensor elements the session feeds in: -1.0 and 1.0
Vals == {-SCALE, SCALE}

TensorsOf(shape) == {Tensor(shape, d) : d \in [1..Prod(shape) -> Vals]}

\* a padding mask of shape (1, 1, n) that hides the last key position
padding_mask(n) == Tensor(<<1, 1, n>>, [p \in 1..n |-> p < n])

MasksFor(n) == {None, forward_mask(n)} \cup (IF n > 1 THEN {padding_mask(n)} ELSE {})

\* dropout probabilities: 0 and 0.5
Probs == {0, SCALE \div 2}
Dropouts == {None} \cup {Dropout(p) : p \in Probs}

ForwardMaskCalls == {[fn |-> "forward_mask", size |-> size] : size \in 0..MaxMask}

AttentionCalls ==
    UNION {[fn : {"attention"}, query : TensorsOf(<<1, n, 1>>),
            key : TensorsOf(<<1, n, 1>>), value : TensorsOf(<<1, n, 1>>),
            mask : MasksFor(n), dropout : Dropouts] : n \in 1..MaxSeq}

\* decoder self-attention: Q = K = V = x under the causal mask of its length
SelfAttentionCall(x) ==
    [fn |-> "attention", query |-> x, key |-> x, value |-> x,
     mask |-> forward_mask(x.shape[2]), dropout |-> None]

SelfAttentionCalls ==
    {SelfAttentionCall(x) : x \in UNION {TensorsOf(<<1, n, d>>) :
                                          n \in 1..MaxSeq, d \in 1..MaxDim}}

InitWith(calls, debugs) ==
    /\ debug \in debugs
    /\ heap = <<>>
    /\ obj = None
    /\ call \in calls
    /\ ret = Pending
    /\ frame = NoFrame
    /\ prev = NoPrev

Init == InitWith(ForwardMaskCalls \cup AttentionCalls, {TRUE})

\* mask = forward_mask(size)
RunForwardMask ==
    /\ call.fn = "forward_mask"
    /\ ret = Pending
    /\ ret' = forward_mask(call.size)
    /\ UNCHANGED <<debug, heap, obj, call, frame, prev>>

\* the locals f of a call of attention become the state of the session
AttentionOutcome(f) ==
    /\ ret' = f.ret
    /\ frame' = [fn |-> "attention", scores |-> f.scores, weights |-> f.weights]

\* out = attention(query, key, value, mask, dropout)
RunAttention ==
    /\ call.fn = "attention"
    /\ ret = Pending
    /\ \E draw \in DrawsOf(call.dropout) :
          AttentionOutcome(
              attention_frame(call.query, call.key, call.value, call.mask,
                              call.dropout, draw))
    /\ UNCHANGED <<debug, heap, obj, call, prev>>

Next == RunForwardMask \/ RunAttention

Spec == Init /\ [][Next]_vars

\* the perturbation test: the session keeps the finished call and makes the
\* same call again on another input of the same shape
Rerun ==
    /\ call.fn = "attention"
    /\ ret # Pending
    /\ prev = NoPrev
    /\ prev' = [call |-> call, ret |-> ret]
    /\ \E x \in TensorsOf(call.query.shape) : call' = SelfAttentionCall(x)
    /\ ret' = Pending
    /\ frame' = NoFrame
    /\ UNCHANGED <<debug, heap, obj>>

InitCausal == InitWith(SelfAttentionCalls, {TRUE})

NextCausal == RunAttention \/ Rerun

SpecCausal == InitCausal /\ [][NextCausal]_vars

\* ------------------------------------------------- the session with modules
Full(shape, v) == Tensor(shape, [p \in 1..Prod(shape) |-> v])
Eye(d) == Tensor(<<d, d>>, [p \in 1..(d * d) |->
              IF (p - 1) \div d = (p - 1) % d THEN SCALE ELSE 0])

\* what the random initialisation of nn.Linear(d, d) may give
LinearInits(d) ==
    {[weight |-> Eye(d), bias |-> Full(<<d>>, 0)],
     [weight |-> Full(<<d, d>>, SCALE \div 2), bias |-> Full(<<d>>, SCALE)]}

\* the weight an optimizer step leaves in a perturbed layer
Perturbed(w) == Full(w.shape, 2 * SCALE)

\* the tensors of a shape the session feeds to a module
Patterns(shape) ==
    {Full(shape, SCALE),
     Tensor(shape, [p \in 1..Prod(shape) |-> IF p % 2 = 1 THEN SCALE ELSE -SCALE])}

CloneCalls ==
    UNION {[fn : {"clone"}, d : {d}, init : LinearInits(d), num_of_clones : 0..MaxN]
           : d \in 1..MaxDim}

MultiHeadAttentionCalls ==
    UNION {[fn : {"MultiHeadAttention"}, h : 1..MaxDim, d_model : {d},
            dropout : Probs, init : LinearInits(d)] : d \in 1..MaxDim}

SublayerCalls == [fn : {"Sublayer"}, size : 1..MaxDim, dropout : Probs]

StackCalls ==
    UNION {[fn : {"Encoder", "Decoder"}, d : {d}, init : LinearInits(d), N : 0..MaxN]
           : d \in 1..MaxDim}

DecoderLayerCalls ==
    UNION {[fn : {"DecoderLayer"}, size : {d}, h : 1..MaxDim, dropout : Probs,
            init : LinearInits(d)] : d \in 1..MaxDim}

ConstructorCalls ==
    CloneCalls \cup MultiHeadAttentionCalls \cup SublayerCalls \cup StackCalls
        \cup DecoderLayerCalls

InitModules == InitWith(ConstructorCalls, BOOLEAN)

Bind(v) == IF IsRaise(v) THEN None ELSE v

\* the outcome c of clone becomes the state of the session
Cloned(c, module_to_clone) ==
    /\ heap' = c.heap
    /\ ret' = c.val
    /\ obj' = Bind(c.val)
    /\ frame' = [fn |-> "clone", module_to_clone |-> module_to_clone]

\* obj = clone(nn.Linear(d, d), num_of_clones)
RunClone ==
    /\ call.fn = "clone"
    /\ ret = Pending
    /\ Cloned(clone(Append(heap, Obj("Linear", call.init)), Ref(Len(heap) + 1),
                    call.num_of_clones, debug),
              Ref(Len(heap) + 1))
    /\ UNCHANGED <<debug, call, prev>>

\* the outcome c of a constructor becomes the state of the session
Constructed(c, fn) ==
    /\ heap' = c.heap
    /\ ret' = c.val
    /\ obj' = Bind(c.val)
    /\ frame' = [fn |-> fn, self |-> c.heap[c.self.id]]

\* obj = MultiHeadAttention(h, d_model, dropout)
RunMultiHeadAttention ==
    /\ call.fn = "MultiHeadAttention"
    /\ ret = Pending
    /\ Constructed(MultiHeadAttention_init(heap, call.h, call.d_model, call.dropout,
                                           call.init, debug),
                   "MultiHeadAttention.__init__")
    /\ UNCHANGED <<debug, call, prev>>

\* obj = Sublayer(size, dropout)
RunSublayer ==
    /\ call.fn = "Sublayer"
    /\ ret = Pending
    /\ Constructed(Sublayer_init(heap, call.size, call.dropout), "Sublayer.__init__")
    /\ UNCHANGED <<debug, call, prev>>

\* obj = Encoder(nn.Linear(d, d), N)
RunEncoder ==
    /\ call.fn = "Encoder"
    /\ ret = Pending
    /\ Constructed(Encoder_init(Append(heap, Obj("Linear", call.init)),
                                Ref(Len(heap) + 1), call.N, debug),
                   "Encoder.__init__")
    /\ UNCHANGED <<debug, call, prev>>

\* obj = Decoder(nn.Linear(d, d), N)
RunDecoder ==
    /\ call.fn = "Decoder"
    /\ ret = Pending
    /\ Constructed(Decoder_init(Append(heap, Obj("Linear", call.init)),
                                Ref(Len(heap) + 1), call.N, debug),
                   "Decoder.__init__")
    /\ UNCHANGED <<debug, call, prev>>

\* the rest of a constructor call, F, applied to the outcome c of building
\* one of its arguments unless that raised
WithModule(c, F(_)) == IF IsRaise(c.val) THEN c ELSE F(c)

\* DecoderLayer(size, MultiHeadAttention(h, size, dropout),
\*              MultiHeadAttention(h, size, dropout), nn.Linear(size, size),
\*              dropout): the arguments are built first, in order
DecoderLayer_new(size, h, dropout, init) ==
    LET A(m) ==
            LET B(a) ==
                    LET C(f) == DecoderLayer_init(f.heap, size, m.val, a.val, f.val,
                                                  dropout, debug)
                    IN  C(nn_Linear(a.heap, init))
            IN  WithModule(MultiHeadAttention_init(m.heap, h, size, dropout, init,
                                                   debug), B)
    IN  WithModule(MultiHeadAttention_init(heap, h, size, dropout, init, debug), A)

\* obj = DecoderLayer(size, MultiHeadAttention(...), MultiHeadAttention(...),
\*                    nn.Linear(size, size), dropout)
RunDecoderLayer ==
    /\ call.fn = "DecoderLayer"
    /\ ret = Pending
    /\ Constructed(DecoderLayer_new(call.size, call.h, call.dropout, call.init),
                   "DecoderLayer.__init__")
    /\ UNCHANGED <<debug, call, prev>>

\* the in_features of the first linear transform of a MultiHeadAttention
DModelOf(o) == heap[heap[o.attrs.linears.id].attrs.items.items[1].id].attrs.weight.shape[2]

\* the forward calls the session may make on the module it holds
MethodCalls ==
    LET o == heap[obj.id]
    IN  CASE o.type = "MultiHeadAttention" ->
               UNION {[fn : {"MultiHeadAttention.forward"},
                       query : {x}, key : {x}, value : {x},
                       mask : {None, forward_mask(x.shape[2])}]
                      : x \in UNION {Patterns(<<b, n, DModelOf(o)>>) :
                                       b \in 1..MaxBatch, n \in 1..MaxSeq}}
          [] o.type = "Sublayer" ->
               UNION {[fn : {"Sublayer.forward"},
                       x : Patterns(<<1, n, heap[o.attrs.layernorm.id].attrs.gamma.shape[1]>>),
                       sublayer_protagonist : {[type |-> "function", name |-> "identity"]}]
                      : n \in 1..MaxSeq}
          [] o.type \in {"Encoder", "Decoder"} ->
               UNION {[fn : {o.type \o ".forward"}, x : Patterns(<<1, n, d>>)]
                      : n \in 1..MaxSeq, d \in 1..MaxDim}
          [] o.type = "DecoderLayer" ->
               UNION {[fn : {"DecoderLayer.forward"},
                       x : Patterns(<<1, n, heap[o.attrs.feed_forward.id].attrs.weight.shape[2]>>)]
                      : n \in 1..MaxSeq}
          [] OTHER -> {}

\* the session makes a forward call on the module it holds
NewCall ==
    /\ ret # Pending
    /\ obj # None
    /\ call' \in MethodCalls
    /\ ret' = Pending
    /\ frame' = NoFrame
    /\ prev' = NoPrev
    /\ UNCHANGED <<debug, heap, obj>>

\* the session makes the finished forward call again, with the same arguments
Repeat ==
    /\ call.fn = "MultiHeadAttention.forward"
    /\ ret # Pending
    /\ prev = NoPrev
    /\ prev' = [call |-> call, ret |-> ret]
    /\ ret' = Pending
    /\ frame' = NoFrame
    /\ UNCHANGED <<debug, heap, obj, call>>

\* the outcome r of the forward call becomes the state of the session
Forwarded(r) ==
    /\ heap' = r.heap
    /\ ret' = r.ret
    /\ frame' = [fn |-> "MultiHeadAttention.forward",
                 mask_arg |-> MultiHeadAttention_mask_arg(call.mask)]

\* out = obj(query, key, value, mask) on a MultiHeadAttention
RunMultiHeadAttentionForward ==
    /\ call.fn = "MultiHeadAttention.forward"
    /\ ret = Pending
    /\ \E draw \in DrawsOf(heap[heap[obj.id].attrs.dropout.id]) :
          Forwarded(MultiHeadAttention_forward(heap, obj, call.query, call.key,
                                               call.value, call.mask, draw))
    /\ UNCHANGED <<debug, obj, call, prev>>

\* out = obj(x, f) on a Sublayer
RunSublayerForward ==
    /\ call.fn = "Sublayer.forward"
    /\ ret = Pending
    /\ \E draw \in DrawsOf(heap[heap[obj.id].attrs.dropout.id]) :
          ret' = Sublayer_forward(heap, obj, call.x, call.sublayer_protagonist, draw)
    /\ frame' = [fn |-> "Sublayer.forward"]
    /\ UNCHANGED <<debug, heap, obj, call, prev>>

\* out = obj(x) on an Encoder
RunEncoderForward ==
    /\ call.fn = "Encoder.forward"
    /\ ret = Pending
    /\ ret' = Encoder_forward(heap, obj, call.x)
    /\ frame' = [fn |-> "Encoder.forward"]
    /\ UNCHANGED <<debug, heap, obj, call, prev>>

\* out = obj(x) on a Decoder
RunDecoderForward ==
    /\ call.fn = "Decoder.forward"
    /\ ret = Pending
    /\ ret' = Decoder_forward(heap, obj, call.x)
    /\ frame' = [fn |-> "Decoder.forward"]
    /\ UNCHANGED <<debug, heap, obj, call, prev>>

\* the outcome r of DecoderLayer.forward becomes the state of the session
DecoderLayerForwarded(r) ==
    /\ ret' = r.ret
    /\ frame' = [fn |-> "DecoderLayer.forward", called |-> r.called]

\* the dropout of the first Sublayer of the DecoderLayer the session holds
SublayerDropout ==
    heap[heap[heap[heap[obj.id].attrs.sublayers.id].attrs.items.items[1].id]
             .attrs.dropout.id]

\* out = obj(x) on a DecoderLayer
RunDecoderLayerForward ==
    /\ call.fn = "DecoderLayer.forward"
    /\ ret = Pending
    /\ \E draw \in DrawsOf(SublayerDropout) :
          DecoderLayerForwarded(DecoderLayer_forward(heap, obj, call.x, draw))
    /\ UNCHANGED <<debug, heap, obj, call, prev>>

\* the layers of the stack the session holds: the items of a ModuleList, or
\* of the stack of an Encoder or a Decoder
LayersOf(o) ==
    CASE o.type = "ModuleList" -> o.attrs.items.items
      [] o.type = "Encoder" -> heap[o.attrs.encoder_stack.id].attrs.items.items
      [] o.type = "Decoder" -> heap[o.attrs.decoder_stack.id].attrs.items.items
      [] OTHER -> <<>>

\* an optimizer step (outside the notebook) that writes the weight of one
\* layer of the stack
PerturbParam ==
    /\ ret # Pending
    /\ obj # None
    /\ \E i \in 1..Len(LayersOf(heap[obj.id])) :
          LET id == LayersOf(heap[obj.id])[i].id
              w  == heap[id].attrs.weight
          IN  /\ w # Perturbed(w)
              /\ heap' = [heap EXCEPT ![id].attrs.weight = Perturbed(w)]
              /\ call' = [fn |-> "perturb", layer |-> i]
    /\ ret' = None
    /\ frame' = NoFrame
    /\ prev' = NoPrev
    /\ UNCHANGED <<debug, obj>>

NextModules ==
    \/ RunClone
    \/ RunMultiHeadAttention
    \/ RunSublayer
    \/ RunEncoder
    \/ RunDecoder
    \/ NewCall
    \/ Repeat
    \/ RunMultiHeadAttentionForward
    \/ RunSublayerForward
    \/ RunEncoderForward
    \/ RunDecoderForward
    \/ RunDecoderLayer
    \/ RunDecoderLayerForward
    \/ PerturbParam

SpecModules == InitModules /\ [][NextModules]_vars

\* ================================================================== claims
\* the weight below which an attention weight counts as approximately 0
ApproxZero == SCALE \div 100

Done(fn) == call.fn = fn /\ ret # Pending

Hidden(p) ==
    ~BroadcastAt(call.mask, frame.scores.shape, Unravel(frame.scores.shape, p - 1))

\* positions p and q of the scores lie in the same query row
SameRow(p, q) ==
    LET n == frame.scores.shape[Len(frame.scores.shape)]
    IN  (p - 1) \div n = (q - 1) \div n

\* C2: in attention with a mask, every score where the mask is false is
\* replaced before the softmax by a number below every unmasked score of its
\* row, the weight of every masked-out position is approximately 0, and the
\* weights of each query row sum to 1.
C2_MaskedPositionsGetNoWeight ==
    (Done("attention") /\ call.mask # None /\ IsTensor(frame.weights)) =>
        LET P == 1..Len(frame.scores.data)
        IN  /\ \A p \in P : Hidden(p) =>
                  /\ \A q \in P : (SameRow(p, q) /\ ~Hidden(q)) =>
                         frame.scores.data[p] < frame.scores.data[q]
                  /\ frame.weights.data[p] <= ApproxZero
            /\ \A p \in P :
                  LET row == {q \in P : SameRow(p, q)}
                      sum == SumSeq([k \in 1..Cardinality(row) |->
                                 frame.weights.data[
                                     CHOOSE q \in row :
                                         Cardinality({r \in row : r < q}) = k - 1]])
                  IN  sum <= SCALE /\ sum >= SCALE - Cardinality(row)

\* the two decoder inputs agree on positions 0..i
AgreeUpTo(x, y, i) ==
    \A p \in 0..i, c \in 0..(x.shape[3] - 1) : At(x, <<0, p, c>>) = At(y, <<0, p, c>>)

\* the two outputs are the same at position i
SameAt(x, y, i) ==
    \A c \in 0..(x.shape[3] - 1) : At(x, <<0, i, c>>) = At(y, <<0, i, c>>)

\* C3: two runs of decoder self-attention under the causal mask whose inputs
\* agree on positions 0..i produce the same output at position i.
C3_CausalNonInterference ==
    (Done("attention") /\ prev.call.fn = "attention"
        /\ IsTensor(ret) /\ IsTensor(prev.ret)) =>
        \A i \in 0..(call.query.shape[2] - 1) :
            AgreeUpTo(call.query, prev.call.query, i) => SameAt(ret, prev.ret, i)

\* C6: attention returns two results, the attended output and the
\* attention-weight tensor.
C6_AttentionReturnsOutputAndWeights ==
    (Done("attention") /\ ~IsRaise(ret)) =>
        /\ ret.type = "tuple"
        /\ Len(ret.items) = 2
        /\ ret.items[2] = frame.weights

\* C4: constructing MultiHeadAttention(h, d_model) with d_model % h # 0 fails
\* at construction, before d_k, h or the linear transforms are set; with
\* d_model % h = 0 construction succeeds with d_k = d_model / h, so that
\* h * d_k = d_model.
C4_ConstructionChecksDivisibility ==
    Done("MultiHeadAttention") =>
        IF call.d_model % call.h # 0
        THEN /\ IsRaise(ret)
             /\ DOMAIN frame.self.attrs \cap {"d_k", "h", "linears"} = {}
        ELSE /\ ~IsRaise(ret)
             /\ heap[ret.id].attrs.d_k.v = call.d_model \div call.h
             /\ call.h * heap[ret.id].attrs.d_k.v = call.d_model

\* C5: for every d_model, every h that divides it and every query, key and
\* value of shape [batch, seq, d_model], with or without a mask,
\* MultiHeadAttention.forward returns a tensor of shape [batch, seq, d_model].
C5_ForwardKeepsShape ==
    (/\ Done("MultiHeadAttention.forward")
     /\ DModelOf(heap[obj.id]) % heap[obj.id].attrs.h.v = 0) =>
        /\ IsTensor(ret)
        /\ ret.shape = call.query.shape

\* x + dropout(f(layernorm(x))) with the LayerNorm and the dropout of the
\* Sublayer the session holds
PreNormResidual(x, f, draw) ==
    LET o    == heap[obj.id]
        I(r) == Add(x, dropout_call(heap[o.attrs.dropout.id], r, draw))
        H(n) == Then(CallValue(heap, f, n), I)
    IN  Then(LayerNorm_forward(heap[o.attrs.layernorm.id], x), H)

\* C7: for every input x and sublayer function f, Sublayer.forward(x, f) is
\* x + dropout(f(layernorm(x))): the wrapper's own LayerNorm first, then f,
\* then dropout, and the unnormalized x added last.
C7_SublayerIsPreNormResidual ==
    Done("Sublayer.forward") =>
        /\ IsTensor(ret)
        /\ \E draw \in DrawsOf(heap[heap[obj.id].attrs.dropout.id]) :
              ret = PreNormResidual(call.x, call.sublayer_protagonist, draw)

\* C8: for every N >= 0 an Encoder or Decoder holds N layers, and its forward
\* applies them once each in stack order, the output of one being the input
\* of the next, and returns the last output; with N = 0 it returns its input.
C8_StackAppliesLayersInOrder ==
    /\ (Done("Encoder") \/ Done("Decoder")) =>
          /\ ~IsRaise(ret)
          /\ Len(LayersOf(heap[ret.id])) = call.N
    /\ (Done("Encoder.forward") \/ Done("Decoder.forward")) =>
          /\ ret = ApplyLayers(heap, LayersOf(heap[obj.id]), call.x)
          /\ LayersOf(heap[obj.id]) = <<>> => ret = call.x

\* a step of clone(module, N) returns N new objects, each equal to the
\* template and none of them the template or another copy
ClonesTemplate ==
    /\ ~IsRaise(ret')
    /\ LET layers   == LayersOf(heap'[ret'.id])
           template == frame'.module_to_clone
       IN  /\ Len(layers) = call.num_of_clones
           /\ \A i \in 1..Len(layers) :
                 /\ layers[i].id # template.id
                 /\ heap'[layers[i].id] = heap'[template.id]
                 /\ \A j \in 1..Len(layers) : i # j => layers[i].id # layers[j].id

\* a perturbation of one layer changes no other object: not the other
\* layers of the stack, not the template
PerturbsOneLayer ==
    \A id \in 1..Len(heap) :
        id # LayersOf(heap[obj.id])[call'.layer].id => heap'[id] = heap[id]

\* C9: clone(module, N) returns an ordered collection of exactly N deep
\* copies of the template, each owning its parameters: a perturbation of the
\* parameters of one layer leaves every other layer and the template
\* unchanged.
C9_CloneGivesIndependentCopies ==
    [][/\ (call.fn = "clone" /\ ret = Pending) => ClonesTemplate
       /\ call'.fn = "perturb" => PerturbsOneLayer]_vars

\* the dropout probability of the MultiHeadAttention the session holds
DropoutP == heap[heap[obj.id].attrs.dropout.id].attrs.p.v

\* the heap with no attention weights retained on the module
Forgotten == [heap EXCEPT ![obj.id] = SetAttr(@, "attn", None)]

\* C10: with dropout probability 0 the outcome of MultiHeadAttention.forward
\* is determined by the call's inputs and the parameters alone: it is what
\* the call gives on a module that retains no attention weights, and a
\* repeated call with the same inputs gives the same outcome.
C10_ForwardIgnoresRetainedWeights ==
    (Done("MultiHeadAttention.forward") /\ DropoutP = 0) =>
        /\ ret = MultiHeadAttention_forward(Forgotten, obj, call.query, call.key,
                                            call.value, call.mask, "keep").ret
        /\ prev.call = call => ret = prev.ret

C10_Witness ==
    /\ Done("MultiHeadAttention.forward")
    /\ DropoutP = 0
    /\ prev.call = call
    /\ IsTensor(prev.ret)
    /\ IsTensor(ret)
    /\ heap[obj.id].attrs.attn # None

\* C11: in MultiHeadAttention.forward, when a mask is given, the mask handed
\* to attention has a head axis of size 1 inserted after the batch axis
\* (shape [batch, 1, seq_q, seq_k]), so that it broadcasts over the h heads.
C11_MaskGetsHeadAxis ==
    (Done("MultiHeadAttention.forward") /\ call.mask # None) =>
        /\ frame.mask_arg = Unsqueeze(call.mask, 1)
        /\ Rank(frame.mask_arg) = Rank(call.mask) + 1
        /\ frame.mask_arg.shape[2] = 1

\* C12: DecoderLayer.forward applies exactly three sublayers in fixed order,
\* each through its own Sublayer wrapper: masked self-attention, then
\* cross-attention, then the position-wise feed-forward, the output of each
\* being the input of the next, and returns the last output.
C12_DecoderLayerAppliesThreeSublayers ==
    Done("DecoderLayer.forward") =>
        /\ frame.called = <<1, 2, 3>>
        /\ IsTensor(ret)
        /\ ret.shape = call.x.shape

\* the forward calls of the modules
ForwardFns ==
    {"MultiHeadAttention.forward", "Sublayer.forward", "Encoder.forward",
     "Decoder.forward", "DecoderLayer.forward"}

\* a step leaves the object as it was, but for the attention weights a
\* MultiHeadAttention retains
KeptButAttn(id) ==
    \/ heap'[id] = heap[id]
    \/ /\ heap[id].type = "MultiHeadAttention"
       /\ heap'[id] = SetAttr(heap[id], "attn", heap'[id].attrs.attn)

\* C13: every forward call leaves what construction built unchanged: no
\* object is added or removed, every parameter keeps its value and every
\* stack its layers in the same order; the only module field a forward call
\* writes is the attention weights a MultiHeadAttention retains.
C13_ForwardWritesOnlyAttn ==
    [][(ret = Pending /\ call.fn \in ForwardFns) =>
          /\ Len(heap') = Len(heap)
          /\ \A id \in 1..Len(heap) : KeptButAttn(id)
          /\ obj' = obj]_vars

C13_Witness ==
    /\ Done("MultiHeadAttention.forward")
    /\ IsTensor(heap[obj.id].attrs.attn)
    /\ Len(heap[heap[obj.id].attrs.linears.id].attrs.items.items) = NUM_LINEARS

=============================================================================
